---------------------------- MODULE Spec2Model ----------------------------
(***************************************************************************)
(* TargetProjectLocator (packages/gradle/src/utils/get-gradle-report.ts,   *)
(* lines 316-601): the import-resolution engine that maps an import        *)
(* specifier to an internal project or an external package.                *)
(*                                                                         *)
(* Strings are sequences of tokens: the delimiters "/", "*", "@", "__",    *)
(* "node:", "npm:" are tokens of their own and every other token is a name *)
(* that contains no delimiter, so that startsWith, endsWith, includes,     *)
(* split and concatenation on token sequences agree with the same          *)
(* operations on the characters.  null and undefined are the empty         *)
(* sequence Null (both are falsy in the source; so is the empty string).   *)
(***************************************************************************)
EXTENDS Naturals, Sequences, FiniteSets, TLC

Null == <<>>

Truthy(v) == v # Null

\* Let(v, F) is F(v) with v evaluated once, before F uses it
Let(v, F(_)) == CHOOSE r \in {F(x) : x \in {v}} : TRUE

\* ------------------------------------------------------------- strings

StartsWith(s, p) == Len(p) <= Len(s) /\ SubSeq(s, 1, Len(p)) = p

EndsWith(s, p) == Len(p) <= Len(s) /\ SubSeq(s, Len(s) - Len(p) + 1, Len(s)) = p

Includes(s, p) ==
  \E i \in 1..(Len(s) + 1) : i + Len(p) - 1 <= Len(s) /\ SubSeq(s, i, i + Len(p) - 1) = p

\* s.split('/'): the segments between the "/" tokens (empty segments kept)
RECURSIVE SplitFrom(_, _, _, _)
SplitFrom(s, i, done, cur) ==
  IF i > Len(s) THEN Append(done, cur)
  ELSE IF s[i] = "/" THEN Let(Append(done, cur), LAMBDA d : SplitFrom(s, i + 1, d, <<>>))
  ELSE Let(Append(cur, s[i]), LAMBDA c : SplitFrom(s, i + 1, done, c))

Split(s) == Let(s, LAMBDA v : SplitFrom(v, 1, <<>>, <<>>))

\* segs.join('/')
RECURSIVE JoinFrom(_, _, _)
JoinFrom(segs, i, acc) ==
  IF i > Len(segs) THEN acc
  ELSE Let(IF i = 1 THEN segs[1] ELSE acc \o <<"/">> \o segs[i],
           LAMBDA a : JoinFrom(segs, i + 1, a))

JoinSegs(segs) == Let(segs, LAMBDA v : JoinFrom(v, 1, <<>>))

\* ---------------------------------------------------------- node:path

\* The segments of a normalized path: empty and "." segments dropped,
\* ".." removing the segment before it (kept when there is none).
RECURSIVE NormFrom(_, _, _)
NormFrom(segs, i, acc) ==
  IF i > Len(segs) THEN acc
  ELSE Let(IF segs[i] = <<>> \/ segs[i] = <<".">> THEN acc
           ELSE IF segs[i] = <<"..">> /\ Len(acc) > 0 /\ acc[Len(acc)] # <<"..">>
                THEN SubSeq(acc, 1, Len(acc) - 1)
           ELSE Append(acc, segs[i]),
           LAMBDA a : NormFrom(segs, i + 1, a))

NormSegs(p) == Let(Split(p), LAMBDA segs : NormFrom(segs, 1, <<>>))

IsAbsolute(p) == StartsWith(p, <<"/">>)

\* path.dirname(p), for a path without trailing slash
Dirname(p) ==
  Let(Split(p), LAMBDA segs :
    IF Len(segs) <= 1 THEN <<".">>
    ELSE IF Len(segs) = 2 /\ segs[1] = <<>> THEN <<"/">>
    ELSE JoinSegs(SubSeq(segs, 1, Len(segs) - 1)))

\* path.join(a, b): the non-empty arguments joined by "/" and normalized
Join(a, b) ==
  Let(IF a = <<>> THEN b ELSE IF b = <<>> THEN a ELSE a \o <<"/">> \o b, LAMBDA raw :
    Let(NormSegs(raw), LAMBDA segs :
      IF IsAbsolute(raw) THEN <<"/">> \o JoinSegs(segs)
      ELSE IF Len(segs) = 0 THEN <<".">>
      ELSE JoinSegs(segs)))

CommonPrefixLen(a, b) ==
  Cardinality({k \in 1..Len(a) : k <= Len(b) /\ SubSeq(a, 1, k) = SubSeq(b, 1, k)})

\* path.relative(from, to), both taken against the same working directory
Relative(from, to) ==
  Let(NormSegs(from), LAMBDA f :
    Let(NormSegs(to), LAMBDA t :
      Let(CommonPrefixLen(f, t), LAMBDA k :
        JoinSegs([i \in 1..(Len(f) - k) |-> <<"..">>] \o SubSeq(t, k + 1, Len(t))))))

\* A workspace-relative path written by its segment names
Path(names) == JoinSegs([i \in 1..Len(names) |-> <<names[i]>>])

\* ------------------------------------------------------- the workspace

\* workspaceRoot (utils/workspace-root), an absolute directory
workspaceRoot == <<"/", "ws">>

\* The constructor's `nodes`: the project nodes, name and root
nodes ==
  << [name |-> <<"app1">>,   root |-> Path(<<"apps", "app1">>)],
     [name |-> <<"lib">>,    root |-> Path(<<"apps", "lib">>)],
     [name |-> <<"shared">>, root |-> Path(<<"libs", "shared">>)],
     [name |-> <<"vend">>,   root |-> Path(<<"apps", "app1", "node_modules", "vend">>)] >>

\* The constructor's `externalNodes`, in key order; a node's name is its key
externalNodes ==
  << [name |-> <<"cargo:", "left-pad">>,
      packageName |-> <<"left-pad">>, version |-> "1.2.0"],
     [name |-> <<"npm:", "left-pad", "@", "1.0.0">>,
      packageName |-> <<"left-pad">>, version |-> "1.0.0"],
     [name |-> <<"npm:", "right-pad">>,
      packageName |-> <<"right-pad">>, version |-> "1.2.0"],
     [name |-> <<"npm:", "left-pad">>,
      packageName |-> <<"left-pad">>, version |-> "1.2.0"],
     [name |-> <<"npm:", "left-pad-dup">>,
      packageName |-> <<"left-pad">>, version |-> "1.2.0"],
     [name |-> <<"npm:", "lodash">>,
      packageName |-> <<"lodash">>, version |-> "4.0.0"],
     [name |-> <<"npm:", "lodash", "@", "3.0.0">>,
      packageName |-> <<"lodash">>, version |-> "3.0.0"],
     [name |-> <<"npm:", "@", "s", "/", "p">>,
      packageName |-> <<"@", "s", "/", "p">>, version |-> "1.0.0"],
     [name |-> <<"npm:", "dual">>,
      packageName |-> <<"dual">>, version |-> "1.0.0"] >>

\* compilerOptions.paths of the root tsconfig, in declaration order
TsConfigPaths ==
  << [pattern |-> <<"@", "org", "/", "*">>,
      targets |-> << <<"libs", "/", "*", "/", "src", "/", "index">> >>],
     [pattern |-> <<"@", "lib", "/", "*">>,
      targets |-> << <<"apps", "/", "nowhere", "/", "*">>, <<"libs", "/", "*">> >>],
     [pattern |-> <<"util">>,
      targets |-> << Path(<<"libs", "shared", "src", "util">>) >>],
     [pattern |-> <<"dual">>,
      targets |-> << Path(<<"apps", "lib", "src", "dual">>) >>],
     [pattern |-> <<"poly">>,
      targets |-> << Path(<<"node_modules", "poly", "index">>) >>] >>

\* module.builtinModules of the host runtime (two of them)
builtinModules == { <<"fs">>, <<"util">> }

\* builtInModuleSet without the "node:" forms
builtInModuleSet_BareOnly == builtinModules

builtInModuleSet == builtinModules \cup { <<"node:">> \o x : x \in builtinModules }

\* The package descriptors on disk: absolute path -> parsed content.
\* A descriptor that is not valid JSON has malformed = TRUE.
Descriptor(n, v) == [malformed |-> FALSE, name |-> n, version |-> v]

PackageJsonFiles ==
     ( <<"/", "ws", "/", "node_modules", "/", "left-pad", "/", "package.json">>
         :> Descriptor(<<"left-pad">>, "1.2.0") )
  @@ ( <<"/", "ws", "/", "node_modules", "/", "lodash", "/", "package.json">>
         :> Descriptor(<<"lodash">>, "4.0.0") )
  @@ ( <<"/", "ws", "/", "apps", "/", "app1", "/", "node_modules", "/", "lodash", "/",
         "package.json">>
         :> Descriptor(<<"lodash">>, "3.0.0") )
  @@ ( <<"/", "ws", "/", "node_modules", "/", "@", "s", "/", "p", "/", "package.json">>
         :> Descriptor(<<"@", "s", "/", "p">>, "1.0.0") )
  @@ ( <<"/", "ws", "/", "node_modules", "/", "dual", "/", "package.json">>
         :> Descriptor(<<"dual">>, "1.0.0") )
  @@ ( <<"/", "ws", "/", "node_modules", "/", "nomatch", "/", "package.json">>
         :> Descriptor(<<"nomatch">>, "9.9.9") )
  @@ ( <<"/", "ws", "/", "node_modules", "/", "badjson", "/", "package.json">>
         :> [malformed |-> TRUE, name |-> Null, version |-> ""] )

\* A collaborator's outcome: a value, or an exception
Returned(v) == [raised |-> FALSE, value |-> v]
Raised == [raised |-> TRUE, value |-> Null]

\* ------------------------------------------------------- collaborators

\* utils/fileutils isRelativePath: "." , "..", or a "./" or "../" prefix
isRelativePath(path) ==
  \/ path = <<".">>
  \/ path = <<"..">>
  \/ StartsWith(path, <<".", "/">>)
  \/ StartsWith(path, <<"..", "/">>)

\* createProjectRootMappings(nodes): normalized root -> project (its index)
createProjectRootMappings(ns) ==
  Let([i \in 1..Len(ns) |-> JoinSegs(NormSegs(ns[i].root))], LAMBDA roots :
    [r \in {roots[i] : i \in 1..Len(ns)} |-> CHOOSE i \in 1..Len(ns) : roots[i] = r])

\* findProjectForPath(filePath, projectRootMap): the project of the longest
\* root enclosing the path, looked up from the path outwards; 0 when none
RECURSIVE findProjectForPath(_, _)
findProjectForPath(filePath, projectRootMap) ==
  IF filePath \in DOMAIN projectRootMap THEN projectRootMap[filePath]
  ELSE Let(Dirname(filePath), LAMBDA parent :
         IF parent = filePath THEN 0
         ELSE findProjectForPath(parent, projectRootMap))

\* findExternalPackageJsonPath(packageName, startDir): the descriptor of the
\* nearest installation of the package, searching node_modules outwards
\* from startDir; null when there is none.  Looking for "ghost" fails.
RECURSIVE NearestPackageJson(_, _)
NearestPackageJson(packageName, dir) ==
  Let(Join(dir, <<"node_modules", "/">> \o packageName \o <<"/", "package.json">>),
      LAMBDA candidate :
        IF candidate \in DOMAIN PackageJsonFiles THEN candidate
        ELSE Let(Dirname(dir), LAMBDA parent :
               IF parent = dir THEN Null
               ELSE NearestPackageJson(packageName, parent)))

findExternalPackageJsonPath(packageName, startDir) ==
  IF packageName = <<"ghost">> THEN Raised
  ELSE Returned(NearestPackageJson(packageName, startDir))

\* parseJson(readFileSync(path, 'utf-8')): fails on a malformed descriptor
readPackageJson(path) ==
  IF path \notin DOMAIN PackageJsonFiles \/ PackageJsonFiles[path].malformed
  THEN Raised
  ELSE Returned(PackageJsonFiles[path])

\* resolveModuleByImport(importExpr, filePath, tsConfigPath): the module's
\* workspace-relative file, undefined when the compiler resolves nothing,
\* an exception when the compiler host fails.  "ctxmod" is a module only
\* files of app1 can see.
resolveModuleByImport(importExpr, filePath, tsConfigPath) ==
  CASE importExpr = <<"tsmod">> ->
         Returned(<<"libs", "/", "shared", "/", "src", "/", "tsmod.ts">>)
    [] importExpr = <<"tsdep">> ->
         Returned(<<"node_modules", "/", "tsdep", "/", "index.d.ts">>)
    [] importExpr = <<"ctxmod">> ->
         IF StartsWith(filePath, <<"apps", "/", "app1", "/">>)
         THEN Returned(<<"apps", "/", "lib", "/", "src", "/", "ctxmod.ts">>)
         ELSE Returned(Null)
    [] importExpr = <<"tsboom">> -> Raised
    [] OTHER -> Returned(Null)

\* require.resolve(importExpr, {paths: [dir]}): the module's absolute file;
\* it throws when the runtime finds no module
requireResolve(importExpr, dir) ==
  CASE importExpr = <<"reqmod">> ->
         Returned(workspaceRoot \o <<"/", "libs", "/", "shared", "/", "dist", "/", "reqmod.js">>)
    [] importExpr = <<"tsdep">> ->
         Returned(workspaceRoot \o <<"/", "node_modules", "/", "tsdep", "/", "index.js">>)
    [] OTHER -> Raised

\* ------------------------------------------------ TargetProjectLocator

\* Map.set(key, value)
MapSet(map, key, value) ==
  [k \in DOMAIN map \cup {key} |-> IF k = key THEN value ELSE map[k]]

EmptyMap == [k \in {} |-> Null]

\* this.cache with the caches shared by every locator
thisCache_Shared(own, other) == other

\* this.typescriptResolutionCache, this.npmResolutionCache: fields that each
\* locator initializes with a Map of its own (lines 348-353); `own` is the
\* map of the locator called, `other` the one of another locator
thisCache(own, other) == own

\* private projectRootMappings = createProjectRootMappings(this.nodes)
projectRootMappings == createProjectRootMappings(nodes)

\* npmProjects without the filter on the key
npmProjects_AllExternalNodes == externalNodes

\* private npmProjects: the external nodes whose key starts with "npm:"
npmProjects == SelectSeq(externalNodes, LAMBDA n : StartsWith(n.name, <<"npm:">>))

\* getRootTsConfig(): the root tsconfig, read once by the constructor;
\* config is null (isNull) when the workspace has none
getRootTsConfig(hasTsConfig) ==
  IF hasTsConfig
  THEN [path |-> <<"tsconfig.base.json">>,
        absolutePath |-> Join(workspaceRoot, <<"tsconfig.base.json">>),
        config |-> [isNull |-> FALSE, paths |-> TsConfigPaths]]
  ELSE [path |-> Null, absolutePath |-> Null,
        config |-> [isNull |-> TRUE, paths |-> Null]]

\* findMatchingProjectFiles(file): this.nodes[findProjectForPath(file)]
findMatchingProjectFiles(file) ==
  Let(findProjectForPath(file, projectRootMappings), LAMBDA project :
    IF project = 0 THEN Null ELSE nodes[project].name)

\* findProjectOfResolvedModule(resolvedModule)
findProjectOfResolvedModule(resolvedModule) ==
  IF \/ StartsWith(resolvedModule, <<"node_modules", "/">>)
     \/ Includes(resolvedModule, <<"/", "node_modules", "/">>)
  THEN Null
  ELSE Let(IF StartsWith(resolvedModule, <<".", "/">>)
           THEN SubSeq(resolvedModule, 3, Len(resolvedModule))
           ELSE resolvedModule,
           LAMBDA normalizedResolvedModule :
             findMatchingProjectFiles(normalizedResolvedModule))

\* parsePackageNameFromImportExpression(importExpression)
parsePackageNameFromImportExpression(importExpression) ==
  Let(Split(importExpression), LAMBDA segs :
    IF StartsWith(importExpression, <<"@">>)
    THEN JoinSegs(SubSeq(segs, 1, IF Len(segs) < 2 THEN Len(segs) ELSE 2))
    ELSE segs[1])

\* path.replace(/\*$/, '')
DropTrailingStar(path) ==
  IF EndsWith(path, <<"*">>) THEN SubSeq(path, 1, Len(path) - 1) ELSE path

\* path.replace(/\/\*$/, '')
DropTrailingSlashStar(path) ==
  IF EndsWith(path, <<"/", "*">>) THEN SubSeq(path, 1, Len(path) - 2) ELSE path

\* The least element of a non-empty set of indices
First(S) == CHOOSE i \in S : \A j \in S : i <= j

\* findPaths with the first matching pattern in key order, exact or wildcard
findPaths_DeclarationOrder(paths, normalizedImportExpr) ==
  IF paths = Null THEN Null
  ELSE Let({i \in 1..Len(paths) :
              \/ paths[i].pattern = normalizedImportExpr
              \/ /\ EndsWith(paths[i].pattern, <<"/", "*">>)
                 /\ \/ StartsWith(normalizedImportExpr,
                                  DropTrailingStar(paths[i].pattern))
                    \/ normalizedImportExpr = DropTrailingSlashStar(paths[i].pattern)},
           LAMBDA matching :
      IF matching # {}
      THEN <<paths[First(matching)].pattern, paths[First(matching)].targets>>
      ELSE Null)

\* Members every object inherits from Object.prototype (two of them).
\* this.paths is a plain object parsed from JSON, so this.paths[name] is
\* the inherited member when the table has no key of that name.
ObjectPrototypeMembers == { <<"constructor">>, <<"toString">> }

\* The value of such a member: a function, truthy and not iterable
InheritedMember == << <<"[Function]">> >>

\* findPaths(normalizedImportExpr): <<pattern, targets>> of the alias used,
\* Null when there is none.  this.paths[expr] is looked up first, then the
\* first wildcard pattern in key order.
findPaths(paths, normalizedImportExpr) ==
  IF paths = Null THEN Null
  ELSE Let({i \in 1..Len(paths) : paths[i].pattern = normalizedImportExpr},
           LAMBDA exact :
      IF exact # {} THEN <<paths[First(exact)].pattern, paths[First(exact)].targets>>
      ELSE IF normalizedImportExpr \in ObjectPrototypeMembers
      THEN <<normalizedImportExpr, InheritedMember>>
      ELSE Let({i \in 1..Len(paths) :
                  /\ EndsWith(paths[i].pattern, <<"/", "*">>)
                  /\ \/ StartsWith(normalizedImportExpr,
                                   DropTrailingStar(paths[i].pattern))
                     \/ normalizedImportExpr = DropTrailingSlashStar(paths[i].pattern)},
               LAMBDA wild :
          IF wild # {} THEN <<paths[First(wild)].pattern, paths[First(wild)].targets>>
          ELSE Null))

\* The candidate of one target p of the alias `path` (lines 382-384)
PathCandidate(path, p, importExpr) ==
  IF EndsWith(p, <<"/", "*">>)
  THEN Let(Dirname(p), LAMBDA dir :
         Let(Relative(DropTrailingStar(path), importExpr), LAMBDA rest :
           Join(dir, rest)))
  ELSE p

\* The first external node of npmProjects with the descriptor's name and
\* version (Array.find), Null when there is none
matchingExternalNode(externalPackageJson) ==
  Let({i \in 1..Len(npmProjects) :
         /\ npmProjects[i].packageName = externalPackageJson.name
         /\ npmProjects[i].version = externalPackageJson.version},
      LAMBDA S : IF S = {} THEN Null ELSE npmProjects[First(S)].name)

\* The key of a package's entry in npmResolutionCache (line 501)
npmImportForProject(packageName, projectRoot) ==
  packageName \o <<"__">> \o projectRoot

\* The descriptor findNpmPackage locates for an import (lines 507-513);
\* Null when none is found or the lookup fails
externalPackageJsonPath(importExpr, projectRoot) ==
  Let(parsePackageNameFromImportExpression(importExpr), LAMBDA packageName :
  Let(Join(workspaceRoot, projectRoot), LAMBDA fullProjectRootPath :
  Let(findExternalPackageJsonPath(packageName, fullProjectRootPath), LAMBDA found :
    IF found.raised THEN Null ELSE found.value)))

\* findNpmPackage(importExpr, projectRoot): the value returned, the cache
\* afterwards and the collaborators called, in order
NpmResult(ret, npmCache, calls) == [ret |-> ret, npmCache |-> npmCache, calls |-> calls]

findNpmPackage(npmCache, importExpr, projectRoot) ==
  Let(parsePackageNameFromImportExpression(importExpr), LAMBDA packageName :
  Let(npmImportForProject(packageName, projectRoot), LAMBDA key :
    IF key \in DOMAIN npmCache THEN NpmResult(npmCache[key], npmCache, <<>>)
    ELSE
  Let(Join(workspaceRoot, projectRoot), LAMBDA fullProjectRootPath :
  Let(findExternalPackageJsonPath(packageName, fullProjectRootPath), LAMBDA found :
    IF found.raised \/ ~Truthy(found.value)
    THEN NpmResult(Null, npmCache, <<"findExternalPackageJsonPath">>)
    ELSE
  Let(readPackageJson(found.value), LAMBDA json :
    IF json.raised
    THEN NpmResult(Null, npmCache, <<"findExternalPackageJsonPath", "readFileSync">>)
    ELSE
  Let(matchingExternalNode(json.value), LAMBDA node :
    IF node = Null
    THEN NpmResult(Null, npmCache, <<"findExternalPackageJsonPath", "readFileSync">>)
    ELSE NpmResult(node, MapSet(npmCache, key, node),
                   <<"findExternalPackageJsonPath", "readFileSync">>)))))))

\* resolveImportWithTypescript(normalizedImportExpr, filePath): nothing
\* catches an exception of resolveModuleByImport
TsResult(ret, raised, tsCache, calls, resolved) ==
  [ret |-> ret, raised |-> raised, tsCache |-> tsCache, calls |-> calls,
   resolved |-> resolved]

\* Lines 473-480: the project of the module the compiler resolved
TsProject(resolvedModule) ==
  IF Truthy(resolvedModule) /\ ~Includes(resolvedModule, <<"node_modules", "/">>)
  THEN findProjectOfResolvedModule(resolvedModule)
  ELSE Null

resolveImportWithTypescript(tsCache, tsConfig, normalizedImportExpr, filePath) ==
  IF normalizedImportExpr \in DOMAIN tsCache
  THEN TsResult(TsProject(tsCache[normalizedImportExpr]), FALSE, tsCache, <<>>,
                tsCache[normalizedImportExpr])
  ELSE Let(resolveModuleByImport(normalizedImportExpr, filePath, tsConfig.absolutePath),
           LAMBDA fresh :
      IF fresh.raised
      THEN TsResult(Null, TRUE, tsCache, <<"resolveModuleByImport">>, Null)
      ELSE TsResult(TsProject(fresh.value), FALSE,
                    MapSet(tsCache, normalizedImportExpr, fresh.value),
                    <<"resolveModuleByImport">>, fresh.value))

\* resolveImportWithRequire(normalizedImportExpr, filePath)
resolveImportWithRequire(normalizedImportExpr, filePath) ==
  Let(Dirname(filePath), LAMBDA dir :
  Let(requireResolve(normalizedImportExpr, dir), LAMBDA found :
    IF found.raised THEN Raised
    ELSE Returned(Relative(workspaceRoot, found.value))))

\* The candidates the loop of lines 381-389 tries: up to and including the
\* first one that lies in a project
RECURSIVE TriedCandidates(_, _, _, _, _)
TriedCandidates(path, targets, importExpr, i, tried) ==
  IF i > Len(targets) THEN tried
  ELSE Let(PathCandidate(path, targets[i], importExpr), LAMBDA r :
         Let(Append(tried, r), LAMBDA t :
           IF Truthy(findProjectOfResolvedModule(r)) THEN t
           ELSE TriedCandidates(path, targets, importExpr, i + 1, t)))

\* What one call of findProjectWithImport does: the value returned (ret) or
\* the exception (raised), both caches afterwards, the strategies whose code
\* ran (trace, in order), the one that returned (by), the collaborators
\* called (calls, in order), the alias candidates tried and the resolved
\* module the returning strategy looked up in the projects (Null when it
\* looked none up).
Outcome(ret, raised, npmCache, tsCache, trace, by, calls, candidates, resolved) ==
  [ret |-> ret, raised |-> raised, npmCache |-> npmCache, tsCache |-> tsCache,
   trace |-> trace, by |-> by, calls |-> calls, candidates |-> candidates,
   resolved |-> resolved]

\* Lines 416-427: the runtime resolver, then "nothing found, cache for later"
RuntimeStep(npmCache, tsCache, importExpr, filePath, trace, calls, candidates) ==
  Let(resolveImportWithRequire(importExpr, filePath), LAMBDA req :
    IF ~req.raised
    THEN Outcome(findProjectOfResolvedModule(req.value), FALSE, npmCache, tsCache,
                 Append(trace, "runtime"), "runtime",
                 Append(calls, "require.resolve"), candidates, req.value)
    ELSE Outcome(Null, FALSE, MapSet(npmCache, importExpr, Null), tsCache,
                 Append(trace, "runtime"), "none",
                 Append(calls, "require.resolve"), candidates, Null))

\* Lines 403-414: the language-aware resolver, when there is a tsconfig
LanguageStep(tsConfig, npmCache, tsCache, importExpr, filePath, trace, calls, candidates) ==
  IF tsConfig.config.isNull
  THEN RuntimeStep(npmCache, tsCache, importExpr, filePath, trace, calls, candidates)
  ELSE
  Let(resolveImportWithTypescript(tsCache, tsConfig, importExpr, filePath), LAMBDA ts :
  Let(Append(trace, "language"), LAMBDA tr :
  Let(calls \o ts.calls, LAMBDA cs :
    IF ts.raised
    THEN Outcome(Null, TRUE, npmCache, tsCache, tr, "none", cs, candidates, Null)
    ELSE IF Truthy(ts.ret)
    THEN Outcome(ts.ret, FALSE, npmCache, ts.tsCache, tr, "language", cs, candidates,
                 ts.resolved)
    ELSE Let(ts.tsCache, LAMBDA tc :
           RuntimeStep(npmCache, tc, importExpr, filePath, tr, cs, candidates)))))

\* Lines 397-401: the external package
ExternalStep(tsConfig, npmCache, tsCache, importExpr, projectRoot, filePath, trace, candidates) ==
  Let(findNpmPackage(npmCache, importExpr, projectRoot), LAMBDA npm :
  Let(Append(trace, "external"), LAMBDA tr :
    IF Truthy(npm.ret)
    THEN Outcome(npm.ret, FALSE, npm.npmCache, tsCache, tr, "external", npm.calls,
                 candidates, Null)
    ELSE Let(npm.npmCache, LAMBDA nc :
         Let(npm.calls, LAMBDA cs :
           LanguageStep(tsConfig, nc, tsCache, importExpr, filePath, tr, cs,
                        candidates)))))

\* Lines 392-395: the builtin modules
BuiltinStep(tsConfig, npmCache, tsCache, importExpr, projectRoot, filePath, trace, candidates) ==
  Let(Append(trace, "builtin"), LAMBDA tr :
    IF importExpr \in builtInModuleSet
    THEN Outcome(Null, FALSE, MapSet(npmCache, importExpr, Null), tsCache,
                 tr, "builtin", <<>>, candidates, Null)
    ELSE ExternalStep(tsConfig, npmCache, tsCache, importExpr, projectRoot, filePath,
                      tr, candidates))

\* PathsStep with the external package tried before the tsconfig paths
PathsStep_ExternalFirst(tsConfig, paths, npmCache, tsCache, importExpr, projectRoot, filePath) ==
  Let(findNpmPackage(npmCache, importExpr, projectRoot), LAMBDA npm :
    IF Truthy(npm.ret)
    THEN Outcome(npm.ret, FALSE, npm.npmCache, tsCache, <<"external">>, "external",
                 npm.calls, <<>>, Null)
    ELSE
  Let(findPaths(paths, importExpr), LAMBDA results :
    IF results # Null /\ results[2] = InheritedMember
    THEN Outcome(Null, TRUE, npmCache, tsCache, <<"paths">>, "none", <<>>, <<>>, Null)
    ELSE
  Let(IF results = Null THEN <<>>
      ELSE TriedCandidates(results[1], results[2], importExpr, 1, <<>>), LAMBDA tried :
  Let(IF tried = <<>> THEN Null ELSE findProjectOfResolvedModule(tried[Len(tried)]),
      LAMBDA maybeResolvedProject :
    IF Truthy(maybeResolvedProject)
    THEN Outcome(maybeResolvedProject, FALSE, npmCache, tsCache,
                 <<"external", "paths">>, "paths", npm.calls, tried, tried[Len(tried)])
    ELSE BuiltinStep(tsConfig, npmCache, tsCache, importExpr, projectRoot, filePath,
                     <<"paths">>, tried)))))

\* PathsStep returning what the first candidate of the alias gives
PathsStep_FirstCandidateOnly(tsConfig, paths, npmCache, tsCache, importExpr, projectRoot, filePath) ==
  Let(findPaths(paths, importExpr), LAMBDA results :
    IF results # Null /\ results[2] = InheritedMember
    THEN Outcome(Null, TRUE, npmCache, tsCache, <<"paths">>, "none", <<>>, <<>>, Null)
    ELSE IF results # Null /\ results[2] # <<>>
    THEN Let(PathCandidate(results[1], results[2][1], importExpr), LAMBDA r :
           Outcome(findProjectOfResolvedModule(r), FALSE, npmCache, tsCache,
                   <<"paths">>, "paths", <<>>, <<r>>, r))
    ELSE BuiltinStep(tsConfig, npmCache, tsCache, importExpr, projectRoot, filePath,
                     <<"paths">>, <<>>))

\* Lines 377-390: the tsconfig paths.  `for (let p of paths)` throws a
\* TypeError when findPaths returned an inherited member for the targets.
PathsStep(tsConfig, paths, npmCache, tsCache, importExpr, projectRoot, filePath) ==
  Let(findPaths(paths, importExpr), LAMBDA results :
    IF results # Null /\ results[2] = InheritedMember
    THEN Outcome(Null, TRUE, npmCache, tsCache, <<"paths">>, "none", <<>>, <<>>, Null)
    ELSE
  Let(IF results = Null THEN <<>>
      ELSE TriedCandidates(results[1], results[2], importExpr, 1, <<>>), LAMBDA tried :
  Let(IF tried = <<>> THEN Null ELSE findProjectOfResolvedModule(tried[Len(tried)]),
      LAMBDA maybeResolvedProject :
    IF Truthy(maybeResolvedProject)
    THEN Outcome(maybeResolvedProject, FALSE, npmCache, tsCache,
                 <<"paths">>, "paths", <<>>, tried, tried[Len(tried)])
    ELSE BuiltinStep(tsConfig, npmCache, tsCache, importExpr, projectRoot, filePath,
                     <<"paths">>, tried))))

\* RelativeStep joining on the importing file instead of its directory
RelativeStep_JoinOnFile(npmCache, tsCache, importExpr, filePath) ==
  Let(Join(filePath, importExpr), LAMBDA resolvedModule :
    Outcome(findProjectOfResolvedModule(resolvedModule), FALSE, npmCache, tsCache,
            <<"relative">>, "relative", <<>>, <<>>, resolvedModule))

\* Lines 372-375: a relative import
RelativeStep(npmCache, tsCache, importExpr, filePath) ==
  Let(Dirname(filePath), LAMBDA dir :
  Let(Join(dir, importExpr), LAMBDA resolvedModule :
    Outcome(findProjectOfResolvedModule(resolvedModule), FALSE, npmCache, tsCache,
            <<"relative">>, "relative", <<>>, <<>>, resolvedModule)))

\* findProjectWithImport(importExpr, projectRoot, filePath), lines 367-428
findProjectWithImport(tsConfig, paths, npmCache, tsCache, importExpr, projectRoot, filePath) ==
  IF isRelativePath(importExpr)
  THEN RelativeStep(npmCache, tsCache, importExpr, filePath)
  ELSE PathsStep(tsConfig, paths, npmCache, tsCache, importExpr, projectRoot, filePath)

\* ------------------------------------------------------ the state machine

\* The number of findProjectWithImport calls of one run
MaxCalls == 2

\* The import expressions of the source files
ImportExprs ==
  { <<"..", "/", "lib", "/", "util">>,
    <<"..", "/", "..", "/", "lib", "/", "util">>,
    <<"..", "/", "node_modules">>,
    <<"..", "/", "node_modules", "/", "vend", "/", "x">>,
    <<"@", "org", "/", "shared">>,
    <<"@", "lib", "/", "shared">>,
    <<"util">>, <<"fs">>, <<"node:", "fs">>,
    <<"left-pad">>,
    <<"lodash">>, <<"lodash", "/", "fp">>,
    <<"@", "s", "/", "p">>, <<"@", "s", "/", "p", "/", "sub">>,
    <<"dual">>, <<"poly">>,
    <<"nope">>, <<"nope", "/", "sub">>, <<"nomatch">>, <<"badjson">>, <<"ghost">>,
    <<"tsmod">>, <<"tsdep">>, <<"ctxmod">>, <<"tsboom">>, <<"reqmod">>,
    <<"lodash", "__", "apps", "/", "app1">>,
    <<"constructor">> }

\* The importing files with the root of their project
Contexts ==
  { [projectRoot |-> <<"apps", "/", "app1">>,
     filePath |-> <<"apps", "/", "app1", "/", "src", "/", "main">>],
    [projectRoot |-> <<"libs", "/", "shared">>,
     filePath |-> <<"libs", "/", "shared", "/", "src", "/", "index">>] }

\* The import expressions of the runs with two locators
IsolationImportExprs ==
  { <<"lodash">>, <<"lodash", "/", "fp">>, <<"lodash", "__", "apps", "/", "app1">>,
    <<"tsmod">>, <<"ctxmod">>, <<"nope">>, <<"fs">>,
    <<"..", "/", "..", "/", "lib", "/", "util">> }

VARIABLES
  tsConfig,                   \* private tsConfig = this.getRootTsConfig()
  paths,                      \* private paths = tsConfig.config?.compilerOptions?.paths
  typescriptResolutionCache,  \* Map: import expression -> resolved module | null
  npmResolutionCache,         \* Map: key -> external node name | null
  history,                    \* the calls made so far, with what each did
  fsReads,                    \* the files the locator has read so far, in order
  twin,                       \* a second locator built from the same inputs
  lookup,                     \* the last findPaths lookup made directly
  gradleReportCache,          \* let gradleReportCache: GradleReport (line 25)
  gradleCalls,                \* the calls on the Gradle report so far, with what each did
  tree,                       \* the files of the Tree given to the migration
  migrations                  \* the runs of the migration so far, with what each did

vars == <<tsConfig, paths, typescriptResolutionCache, npmResolutionCache, history,
          fsReads, twin, lookup, gradleReportCache, gradleCalls, tree, migrations>>

\* The files the constructor reads: getRootTsConfig reads the root tsconfig
\* (readJsonFile, line 581) when there is one
ConstructorReads(config) ==
  IF config.absolutePath = Null THEN <<>> ELSE <<config.absolutePath>>

\* undefined, where a GradleReport is expected
NoReport == [object |-> 0]

\* if (gradleReportCache): the variable holds a report
IsReport(v) == v.object # 0

\* new TargetProjectLocator(nodes, externalNodes) with the root tsconfig
\* `config`; the twin is built from the same inputs. The module is freshly
\* loaded: gradleReportCache is declared without a value (line 25).
Construct(config) ==
  /\ tsConfig = config
  /\ paths = config.config.paths
  /\ typescriptResolutionCache = EmptyMap
  /\ npmResolutionCache = EmptyMap
  /\ history = <<>>
  /\ fsReads = ConstructorReads(config)
  /\ twin = [typescriptResolutionCache |-> EmptyMap,
             npmResolutionCache |-> EmptyMap,
             history |-> <<>>]
  /\ lookup = Null
  /\ gradleReportCache = NoReport
  /\ gradleCalls = <<>>

\* No migration is running: no Tree, no run
NoTree ==
  /\ tree = EmptyMap
  /\ migrations = <<>>

\* new TargetProjectLocator(nodes, externalNodes), in a workspace with or
\* without a root tsconfig
Init ==
  /\ \E hasTsConfig \in BOOLEAN : Construct(getRootTsConfig(hasTsConfig))
  /\ NoTree

\* What the history keeps of one call and its outcome
CallRecord(importExpr, projectRoot, filePath, o) ==
  [importExpr |-> importExpr, projectRoot |-> projectRoot,
   filePath |-> filePath, ret |-> o.ret, raised |-> o.raised,
   trace |-> o.trace, by |-> o.by, calls |-> o.calls,
   candidates |-> o.candidates, resolved |-> o.resolved]

\* The files one call read: the descriptor of findNpmPackage, when it got
\* as far as readFileSync
ReadsOfCall(o, importExpr, projectRoot) ==
  IF \E k \in 1..Len(o.calls) : o.calls[k] = "readFileSync"
  THEN <<externalPackageJsonPath(importExpr, projectRoot)>>
  ELSE <<>>

\* One call locator.findProjectWithImport(importExpr, projectRoot, filePath)
FindProjectWithImport(importExpr, projectRoot, filePath) ==
  /\ Len(history) < MaxCalls
  /\ \E o \in {findProjectWithImport(tsConfig, paths,
                 thisCache(npmResolutionCache, twin.npmResolutionCache),
                 thisCache(typescriptResolutionCache, twin.typescriptResolutionCache),
                 importExpr, projectRoot, filePath)} :
         /\ npmResolutionCache' = o.npmCache
         /\ typescriptResolutionCache' = o.tsCache
         /\ history' = Append(history, CallRecord(importExpr, projectRoot, filePath, o))
         /\ fsReads' = fsReads \o ReadsOfCall(o, importExpr, projectRoot)
  /\ UNCHANGED <<tsConfig, paths, twin, lookup, gradleReportCache, gradleCalls,
                 tree, migrations>>

Next ==
  \E importExpr \in ImportExprs, c \in Contexts :
    FindProjectWithImport(importExpr, c.projectRoot, c.filePath)

Spec == Init /\ [][Next]_vars

\* ------------------------------------------------------ two locators

\* One call twin.findProjectWithImport(importExpr, projectRoot, filePath)
TwinFindProjectWithImport(importExpr, projectRoot, filePath) ==
  /\ \E o \in {findProjectWithImport(tsConfig, paths,
                 thisCache(twin.npmResolutionCache, npmResolutionCache),
                 thisCache(twin.typescriptResolutionCache, typescriptResolutionCache),
                 importExpr, projectRoot, filePath)} :
         twin' = [typescriptResolutionCache |-> o.tsCache,
                  npmResolutionCache |-> o.npmCache,
                  history |-> Append(twin.history,
                                CallRecord(importExpr, projectRoot, filePath, o))]
  /\ UNCHANGED <<tsConfig, paths, typescriptResolutionCache, npmResolutionCache,
                 history, fsReads, lookup, gradleReportCache, gradleCalls,
                 tree, migrations>>

\* Calls on either locator, in any order, MaxCalls of them in all
NextTwo ==
  /\ Len(history) + Len(twin.history) < MaxCalls
  /\ \E importExpr \in IsolationImportExprs, c \in Contexts :
       \/ FindProjectWithImport(importExpr, c.projectRoot, c.filePath)
       \/ TwinFindProjectWithImport(importExpr, c.projectRoot, c.filePath)

SpecTwo == Init /\ [][NextTwo]_vars

\* ------------------------------------------------------ findPaths alone

\* The number of aliases of a table
MaxAliases == 3

\* The alias patterns of the tables, each with two targets of its own
AliasPatterns ==
  { <<"@", "org", "/", "*">>, <<"@", "org", "/", "a">>, <<"@", "org">>,
    <<"@", "orgx", "/", "*">>, <<"@", "org", "/", "a", "/", "*">> }

TargetsOf(pattern) ==
  << <<"libs", "/">> \o pattern, <<"packages", "/">> \o pattern >>

\* The alias tables: up to MaxAliases patterns, each at most once, in any
\* declaration order
AliasTables ==
  { [i \in 1..Len(ps) |-> [pattern |-> ps[i], targets |-> TargetsOf(ps[i])]] :
      ps \in { q \in UNION { [1..n -> AliasPatterns] : n \in 0..MaxAliases } :
                 \A i, j \in 1..Len(q) : i # j => q[i] # q[j] } }

\* The specifiers looked up
PathExprs ==
  { <<"@", "org", "/", "a">>, <<"@", "org">>, <<"@", "orgx", "/", "a">>,
    <<"@", "org", "/", "a", "/", "b">>, <<"@", "orgx">>, <<"@", "or">>,
    <<"other">>, <<"constructor">> }

\* A locator in a workspace whose root tsconfig declares one of the alias
\* tables, or in one without a root tsconfig
InitPaths ==
  /\ \/ \E table \in AliasTables :
          Construct([path |-> <<"tsconfig.base.json">>,
                     absolutePath |-> Join(workspaceRoot, <<"tsconfig.base.json">>),
                     config |-> [isNull |-> FALSE, paths |-> table]])
     \/ Construct(getRootTsConfig(FALSE))
  /\ NoTree

\* One call locator.findPaths(normalizedImportExpr)
FindPaths(normalizedImportExpr) ==
  /\ lookup' = [normalizedImportExpr |-> normalizedImportExpr,
               result |-> findPaths(paths, normalizedImportExpr)]
  /\ UNCHANGED <<tsConfig, paths, typescriptResolutionCache, npmResolutionCache,
                 history, fsReads, twin, gradleReportCache, gradleCalls,
                 tree, migrations>>

NextPaths == \E normalizedImportExpr \in PathExprs : FindPaths(normalizedImportExpr)

SpecPaths == InitPaths /\ [][NextPaths]_vars


\* ------------------------------------------------------ the Gradle report

\* fileSeparator, on a platform that is not Windows (lines 9-11)
fileSeparator == "file://"

\* s.split(sep) for a separator that is one token: the parts between its
\* occurrences (empty parts kept)
RECURSIVE SplitOnFrom(_, _, _, _, _)
SplitOnFrom(s, sep, i, done, cur) ==
  IF i > Len(s) THEN Append(done, cur)
  ELSE IF s[i] = sep THEN Let(Append(done, cur), LAMBDA d : SplitOnFrom(s, sep, i + 1, d, <<>>))
  ELSE Let(Append(cur, s[i]), LAMBDA c : SplitOnFrom(s, sep, i + 1, done, c))

SplitOn(s, sep) == Let(s, LAMBDA v : SplitOnFrom(v, sep, 1, <<>>, <<>>))

\* s.replaceAll(t, ''): s without the tokens t
RECURSIVE ReplaceAll(_, _)
ReplaceAll(s, t) ==
  IF s = <<>> THEN <<>>
  ELSE IF Head(s) = t THEN ReplaceAll(Tail(s), t)
  ELSE <<Head(s)>> \o ReplaceAll(Tail(s), t)

\* s.replace(t, ''): s without the first token t
RECURSIVE ReplaceFirst(_, _)
ReplaceFirst(s, t) ==
  IF s = <<>> THEN <<>>
  ELSE IF Head(s) = t THEN Tail(s)
  ELSE <<Head(s)>> \o ReplaceFirst(Tail(s), t)

\* s.trim(): s without the blanks at its ends
RECURSIVE Trim(_)
Trim(s) ==
  IF s = <<>> THEN <<>>
  ELSE IF Head(s) = " " THEN Trim(Tail(s))
  ELSE IF s[Len(s)] = " " THEN Trim(SubSeq(s, 1, Len(s) - 1))
  ELSE s

\* normalizePath of @nx/devkit: the backslashes of a path turned into "/"
normalizePath(osSpecificPath) ==
  [i \in DOMAIN osSpecificPath |->
     IF osSpecificPath[i] = "\\" THEN "/" ELSE osSpecificPath[i]]

\* map.get(key): undefined when the map has no such key
MapGet(map, key) == IF key \in DOMAIN map THEN map[key] ELSE Null

\* existsSync(file) ? readFileSync(file).toString().split(newLineSeparator) : []
\* (lines 174-176, 238-240), over the files `files` of the disk
ReadLines(files, file) == IF file \in DOMAIN files THEN files[file] ELSE <<>>

\* The loop of lines 153-158 (167-172, 230-235): the first index from
\* `index` on whose line includes fileSeparator, or one past the last line
RECURSIVE SkipToFileLine(_, _)
SkipToFileLine(projectReportLines, index) ==
  IF index <= Len(projectReportLines)
     /\ ~Includes(projectReportLines[index], <<fileSeparator>>)
  THEN SkipToFileLine(projectReportLines, index + 1)
  ELSE index

\* const [_, file] = line.split(fileSeparator) (lines 159, 173, 236)
FileOf(line) == SplitOn(line, fileSeparator)[2]

\* The Gradle project of a "> Task <project><suffix>" line: what is between
\* '> Task ' and the suffix, each one token (lines 149-152, 163-166, 226-229)
GradleProjectOf(line) == SubSeq(line, 2, Len(line) - 1)

\* The last assignment of the loop of lines 182-191 to a variable fed by the
\* lines starting with `key`: the rest of the last such line, undefined
\* when there is none
RECURSIVE PropertyFrom(_, _, _, _)
PropertyFrom(propertyReportLines, key, i, value) ==
  IF i > Len(propertyReportLines) THEN value
  ELSE IF StartsWith(propertyReportLines[i], key)
       THEN Let(SubSeq(propertyReportLines[i], Len(key) + 1, Len(propertyReportLines[i])),
                LAMBDA v : PropertyFrom(propertyReportLines, key, i + 1, v))
  ELSE PropertyFrom(propertyReportLines, key, i + 1, value)

Property(propertyReportLines, key) == PropertyFrom(propertyReportLines, key, 1, Null)

\* The value of an output directory: `{workspaceRoot}/${dir}`
InWorkspace(dir) == <<"{workspaceRoot}", "/">> \o dir

\* outputDirMap after the loop of lines 182-200: one entry for each line
\* that includes 'Dir: ', keyed by the name before it without its 'Dir'
RECURSIVE OutputDirsFrom(_, _, _)
OutputDirsFrom(propertyReportLines, i, outputDirMap) ==
  IF i > Len(propertyReportLines) THEN outputDirMap
  ELSE IF Includes(propertyReportLines[i], <<"Dir", ": ">>)
       THEN Let(SplitOn(propertyReportLines[i], ": "), LAMBDA parts :
              Let(MapSet(outputDirMap, ReplaceFirst(parts[1], "Dir"),
                         InWorkspace(Relative(workspaceRoot, parts[2]))),
                  LAMBDA m : OutputDirsFrom(propertyReportLines, i + 1, m)))
  ELSE OutputDirsFrom(propertyReportLines, i + 1, outputDirMap)

\* The loop of lines 251-254, entered with i already advanced: the rows of
\* one group of tasks up to the next empty line. Past the last line
\* tasksFileLines[i] is undefined, which is not '', and its split throws.
RECURSIVE TaskRows(_, _, _, _)
TaskRows(tasksFileLines, i, type, taskTypeMap) ==
  IF i > Len(tasksFileLines) THEN Raised
  ELSE IF tasksFileLines[i] = <<>> THEN Returned([i |-> i, taskTypeMap |-> taskTypeMap])
  ELSE Let(MapSet(taskTypeMap, SplitOn(tasksFileLines[i], " - ")[1], type),
           LAMBDA m : TaskRows(tasksFileLines, i + 1, type, m))

\* new Array(n + 1).join('-')
Dashes(n) == [k \in 1..n |-> "-"]

\* The loop of lines 242-258 over the lines of a task report: a line ending
\* in 'tasks' and underlined by as many dashes heads a group of tasks
RECURSIVE TaskTypesFrom(_, _, _)
TaskTypesFrom(tasksFileLines, i, taskTypeMap) ==
  IF i > Len(tasksFileLines) THEN Returned(taskTypeMap)
  ELSE IF /\ EndsWith(tasksFileLines[i], <<"tasks">>)
          /\ i + 1 <= Len(tasksFileLines)
          /\ tasksFileLines[i + 1] = Dashes(Len(tasksFileLines[i]))
       THEN Let(TaskRows(tasksFileLines, i + 2,
                         SubSeq(tasksFileLines[i], 1, Len(tasksFileLines[i]) - 2),
                         taskTypeMap),
                LAMBDA rows :
                  IF rows.raised THEN Raised
                  ELSE TaskTypesFrom(tasksFileLines, rows.value.i + 1, rows.value.taskTypeMap))
  ELSE TaskTypesFrom(tasksFileLines, i + 1, taskTypeMap)

\* The maps processProjectReports starts with (lines 123-142)
EmptyMaps ==
  [gradleFileToGradleProjectMap |-> EmptyMap,
   gradleProjectToGradleFileMap |-> EmptyMap,
   dependenciesMap |-> EmptyMap,
   gradleProjectToTasksTypeMap |-> EmptyMap,
   gradleProjectToProjectName |-> EmptyMap,
   buildFileToDepsMap |-> EmptyMap,
   gradleFileToOutputDirsMap |-> EmptyMap]

\* One step of the loop and where it leaves the index
Stepped(index, maps) == Returned([index |-> index, maps |-> maps])

\* A '> Task <project>:dependencyReport' line (lines 148-161): the file of
\* the next line that names one is the project's dependency report. When no
\* line names a file, projectReportLines[index] is undefined and its split
\* throws.
DependencyReportLine(projectReportLines, index, maps) ==
  Let(SkipToFileLine(projectReportLines, index), LAMBDA j :
    IF j > Len(projectReportLines) THEN Raised
    ELSE Stepped(j + 1,
           [maps EXCEPT !.dependenciesMap =
              MapSet(@, GradleProjectOf(projectReportLines[index]),
                     FileOf(projectReportLines[j]))]))

\* The maps after a property report that names the project, its build file
\* and its build directory (lines 205-223)
WithProperties(maps, gradleProject, projectName, absBuildFilePath, absBuildDirPath, outputDirMap) ==
  Let(normalizePath(Relative(workspaceRoot, absBuildFilePath)), LAMBDA buildFile :
    Let(Relative(workspaceRoot, absBuildDirPath), LAMBDA buildDir :
      [maps EXCEPT
         !.buildFileToDepsMap = MapSet(@, buildFile, MapGet(maps.dependenciesMap, gradleProject)),
         !.gradleFileToOutputDirsMap =
            MapSet(@, buildFile,
                   MapSet(MapSet(outputDirMap, <<"build">>, InWorkspace(buildDir)),
                          <<"classes">>, InWorkspace(Join(buildDir, <<"classes">>)))),
         !.gradleFileToGradleProjectMap = MapSet(@, buildFile, gradleProject),
         !.gradleProjectToGradleFileMap = MapSet(@, gradleProject, buildFile),
         !.gradleProjectToProjectName = MapSet(@, gradleProject, projectName)]))

\* A '> Task <project>:propertyReport' line (lines 162-224): the file named
\* next is read, when it exists; a report without a name, a build file or a
\* build directory is passed over (`continue`, the index staying on the
\* line that names the file)
PropertyReportLine(projectReportLines, files, index, maps) ==
  Let(SkipToFileLine(projectReportLines, index), LAMBDA j :
    IF j > Len(projectReportLines) THEN Raised
    ELSE
      Let(ReadLines(files, FileOf(projectReportLines[j])), LAMBDA propertyReportLines :
        LET projectName == Property(propertyReportLines, <<"name", ": ">>)
            absBuildFilePath == Property(propertyReportLines, <<"buildFile", ": ">>)
            absBuildDirPath == Property(propertyReportLines, <<"build", "Dir", ": ">>)
        IN IF ~Truthy(projectName) \/ ~Truthy(absBuildFilePath) \/ ~Truthy(absBuildDirPath)
           THEN Stepped(j, maps)
           ELSE Stepped(j + 1,
                  WithProperties(maps, GradleProjectOf(projectReportLines[index]),
                                 projectName, absBuildFilePath, absBuildDirPath,
                                 OutputDirsFrom(propertyReportLines, 1, EmptyMap)))))

\* A '> Task <project>:taskReport' line (lines 225-260): the file named next
\* is read, when it exists, for the type of each task
TaskReportLine(projectReportLines, files, index, maps) ==
  Let(SkipToFileLine(projectReportLines, index), LAMBDA j :
    IF j > Len(projectReportLines) THEN Raised
    ELSE
      Let(TaskTypesFrom(ReadLines(files, FileOf(projectReportLines[j])), 1, EmptyMap),
          LAMBDA taskTypeMap :
            IF taskTypeMap.raised THEN Raised
            ELSE Stepped(j + 1,
                   [maps EXCEPT !.gradleProjectToTasksTypeMap =
                      MapSet(@, GradleProjectOf(projectReportLines[index]),
                             taskTypeMap.value)])))

\* The loop of lines 144-263, from `index` on
RECURSIVE ProcessProjectReportsFrom(_, _, _, _)
ProcessProjectReportsFrom(projectReportLines, files, index, maps) ==
  IF index > Len(projectReportLines) THEN Returned(maps)
  ELSE
    Let(IF ~StartsWith(projectReportLines[index], <<"> Task ">>) THEN Stepped(index + 1, maps)
        ELSE IF EndsWith(projectReportLines[index], <<":dependencyReport">>)
             THEN DependencyReportLine(projectReportLines, index, maps)
        ELSE IF EndsWith(projectReportLines[index], <<":propertyReport">>)
             THEN PropertyReportLine(projectReportLines, files, index, maps)
        ELSE IF EndsWith(projectReportLines[index], <<":taskReport">>)
             THEN TaskReportLine(projectReportLines, files, index, maps)
        ELSE Stepped(index + 1, maps),
        LAMBDA step :
          IF step.raised THEN Raised
          ELSE ProcessProjectReportsFrom(projectReportLines, files,
                                         step.value.index, step.value.maps))

\* processProjectReports(projectReportLines) over the files of the disk: the
\* five maps of the report (lines 265-271), or the TypeError thrown on the way
processProjectReports(projectReportLines, files) ==
  Let(ProcessProjectReportsFrom(projectReportLines, files, 1, EmptyMaps), LAMBDA done :
    IF done.raised THEN Raised
    ELSE Returned(
      [gradleFileToGradleProjectMap |-> done.value.gradleFileToGradleProjectMap,
       buildFileToDepsMap |-> done.value.buildFileToDepsMap,
       gradleFileToOutputDirsMap |-> done.value.gradleFileToOutputDirsMap,
       gradleProjectToTasksTypeMap |-> done.value.gradleProjectToTasksTypeMap,
       gradleProjectToProjectName |-> done.value.gradleProjectToProjectName]))

\* The name of one '+--- <dep>' or '\--- <dep>' line of the projects listing
\* (lines 289-304): what follows 'Included build ' or 'Project ', without a
\* final ' (n)', quotes, blanks at the ends and a leading ':'. A line with
\* nothing after the '--- ', or with something else, leaves `dep` or
\* `includedBuild` undefined, and calling a method of it throws.
IncludedBuildOf(parts) ==
  IF Len(parts) < 2 THEN Raised
  ELSE IF ~StartsWith(parts[2], <<"Included build ">>) /\ ~StartsWith(parts[2], <<"Project ">>)
       THEN Raised
  ELSE Let(Tail(parts[2]), LAMBDA named :
         Let(Trim(ReplaceAll(IF EndsWith(named, <<" (n)">>)
                             THEN SubSeq(named, 1, Len(named) - 1) ELSE named, "'")),
             LAMBDA includedBuild :
               Returned(IF StartsWith(includedBuild, <<":">>)
                        THEN Tail(includedBuild) ELSE includedBuild)))

\* The loop of lines 280-309, from line i on
RECURSIVE ProcessProjectsFrom(_, _, _, _)
ProcessProjectsFrom(projectsLines, i, projectName, compositeProjects) ==
  IF i > Len(projectsLines)
  THEN Returned([projectName |-> projectName, compositeProjects |-> compositeProjects])
  ELSE IF StartsWith(projectsLines[i], <<"Root project">>)
       THEN Let(Trim(ReplaceAll(SubSeq(projectsLines[i], 3, Len(projectsLines[i])), "'")),
                LAMBDA name : ProcessProjectsFrom(projectsLines, i + 1, name, compositeProjects))
  ELSE IF ~Truthy(projectName)
       THEN ProcessProjectsFrom(projectsLines, i + 1, projectName, compositeProjects)
  ELSE Let(SplitOn(projectsLines[i], "--- "), LAMBDA parts :
         IF parts[1] # <<"\\">> /\ parts[1] # <<"+">>
         THEN ProcessProjectsFrom(projectsLines, i + 1, projectName, compositeProjects)
         ELSE Let(IncludedBuildOf(parts), LAMBDA includedBuild :
                IF includedBuild.raised THEN Raised
                ELSE Let(IF Truthy(includedBuild.value)
                         THEN Append(compositeProjects, includedBuild.value)
                         ELSE compositeProjects,
                         LAMBDA pushed :
                           ProcessProjectsFrom(projectsLines, i + 1, projectName, pushed))))

\* processProjects(projectsLines): the root project's name and the names of
\* its included builds and subprojects, or the TypeError thrown on the way
processProjects(projectsLines) == ProcessProjectsFrom(projectsLines, 1, Null, <<>>)

\* execGradle([task], { cwd }): one Gradle command
Command(task, cwd) == [task |-> task, cwd |-> cwd]

\* What runProjectsForSettingsFiles starts with (lines 64-66), and the
\* Gradle commands run so far
NoProjects ==
  [projectReportLines |-> <<>>, settingsFileToProjectNameMap |-> EmptyMap,
   projectNames |-> {}, commands |-> <<>>]

\* The callback of lines 67-108 for one settings file: both commands are
\* run, each in a try of its own; the lines of a projectReport that ran are
\* added; a projects listing that ran is processed, outside any try
ForSettingFile(gradle, settingFile, acc) ==
  LET settingDir == Dirname(settingFile)
      report == gradle.projectReport[settingDir]
      projects == gradle.projects[settingDir]
      ran == [acc EXCEPT
                !.projectReportLines = IF report.raised THEN @ ELSE @ \o report.value,
                !.commands = @ \o <<Command("projectReport", settingDir),
                                    Command("projects", settingDir)>>]
  IN IF projects.raised THEN [raised |-> FALSE, value |-> ran]
     ELSE Let(processProjects(projects.value), LAMBDA p :
            IF p.raised THEN [raised |-> TRUE, value |-> ran]
            ELSE [raised |-> FALSE,
                  value |-> [ran EXCEPT
                    !.projectNames = @ \cup {p.value.projectName}
                       \cup {p.value.compositeProjects[k] : k \in DOMAIN p.value.compositeProjects},
                    !.settingsFileToProjectNameMap = MapSet(@, settingFile, p.value.projectName)]])

RECURSIVE RunProjectsFrom(_, _, _)
RunProjectsFrom(gradle, k, acc) ==
  IF k > Len(gradle.settingFiles) THEN [raised |-> FALSE, value |-> acc]
  ELSE Let(ForSettingFile(gradle, gradle.settingFiles[k], acc), LAMBDA done :
         IF done.raised THEN done ELSE RunProjectsFrom(gradle, k + 1, done.value))

\* runProjectsForSettingsFiles() in the workspace `gradle`: its settings
\* files as glob.sync lists them, and what Gradle prints for each. The
\* value carries the commands run, also when the call throws.
runProjectsForSettingsFiles(gradle) == RunProjectsFrom(gradle, 1, NoProjects)

\* getGradleReport() with the module's cache `cache` in the workspace
\* `gradle`: what it returns or that it throws, the cache it leaves and the
\* Gradle commands it ran. `object` names the object that the spread of lines
\* 43-47 creates.
getGradleReport(cache, gradle, object) ==
  IF IsReport(cache)
  THEN [raised |-> FALSE, value |-> cache, cache |-> cache, commands |-> <<>>]
  ELSE
    Let(runProjectsForSettingsFiles(gradle), LAMBDA ran :
      IF ran.raised
      THEN [raised |-> TRUE, value |-> NoReport, cache |-> cache,
            commands |-> ran.value.commands]
      ELSE
        Let(processProjectReports(ran.value.projectReportLines, gradle.files), LAMBDA maps :
          IF maps.raised
          THEN [raised |-> TRUE, value |-> NoReport, cache |-> cache,
                commands |-> ran.value.commands]
          ELSE
            Let([object |-> object,
                 gradleFileToGradleProjectMap |-> maps.value.gradleFileToGradleProjectMap,
                 buildFileToDepsMap |-> maps.value.buildFileToDepsMap,
                 gradleFileToOutputDirsMap |-> maps.value.gradleFileToOutputDirsMap,
                 gradleProjectToTasksTypeMap |-> maps.value.gradleProjectToTasksTypeMap,
                 gradleProjectToProjectName |-> maps.value.gradleProjectToProjectName,
                 settingsFileToProjectNameMap |-> ran.value.settingsFileToProjectNameMap,
                 projectNames |-> ran.value.projectNames],
                LAMBDA report :
                  [raised |-> FALSE, value |-> report, cache |-> report,
                   commands |-> ran.value.commands])))

\* ------------------------------------------- calls on the Gradle report

\* The number of calls on the report
MaxGradleCalls == 3

\* A '> Task <project><suffix>' line, and the line naming a report's file
TaskLine(project, suffix) == <<"> Task ">> \o project \o <<suffix>>
ReportAt(file) == <<"See the report at: ", fileSeparator>> \o file

\* The files of the reports of project ':app'
DependenciesFile == workspaceRoot \o <<"/", "app", "/", "dependencies.txt">>
PropertiesFile == workspaceRoot \o <<"/", "app", "/", "properties.txt">>
TasksFile == workspaceRoot \o <<"/", "app", "/", "tasks.txt">>

\* What `gradle projectReport` prints, line by line: the three reports of
\* ':app'; and a printout that stops after the task's line
ProjectReportLines ==
  << TaskLine(<<":", "app">>, ":dependencyReport"), ReportAt(DependenciesFile),
     TaskLine(<<":", "app">>, ":propertyReport"), ReportAt(PropertiesFile),
     TaskLine(<<":", "app">>, ":taskReport"), ReportAt(TasksFile),
     <<"BUILD SUCCESSFUL">>, <<>> >>

CutOffReportLines == << TaskLine(<<":", "app">>, ":taskReport"), <<>> >>

\* The property report of ':app', and one that names no build file
PropertiesLines ==
  << <<"name", ": ", "app">>,
     <<"buildFile", ": ">> \o workspaceRoot \o <<"/", "app", "/", "build.gradle">>,
     <<"build", "Dir", ": ">> \o workspaceRoot \o <<"/", "app", "/", "build">>,
     <<"test", "Results", "Dir", ": ">> \o workspaceRoot \o <<"/", "app", "/", "build", "/", "test-results">>,
     <<>> >>

NamelessPropertiesLines == << <<"name", ": ", "app">>, <<>> >>

\* The task report of ':app', and one whose last group has no empty line
\* after it
TasksLines ==
  << <<"Build", " ", "tasks">>, <<"-", "-", "-">>,
     <<"assemble", " - ", "Assembles the outputs">>, <<"build", " - ", "Assembles and tests">>,
     <<>>,
     <<"Help", " ", "tasks">>, <<"-", "-", "-">>, <<"projects", " - ", "Displays the sub-projects">>,
     <<>> >>

OpenEndedTasksLines ==
  << <<"Build", " ", "tasks">>, <<"-", "-", "-">>,
     <<"assemble", " - ", "Assembles the outputs">> >>

\* What `gradle projects` prints: the root project with a subproject and an
\* included build; and a listing with a line of another kind
ProjectsLines ==
  << <<"Root project", " ", "'", "demo", "'">>,
     <<"+", "--- ", "Project ", "'", ":", "app", "'">>,
     <<"\\", "--- ", "Included build ", "'", ":", "build-logic", "'">>,
     <<>> >>

OtherProjectsLines ==
  << <<"Root project", " ", "'", "demo", "'">>,
     <<"+", "--- ", "Project ", "'", ":", "app", "'", " (n)">>,
     <<"\\", "--- ", "Build ", "'", ":", "tools", "'">>,
     <<>> >>

\* A workspace: its settings files, what the two commands do in the
\* directory of each, and the report files on its disk
Workspace(settingFiles, projectReport, projects, files) ==
  [settingFiles |-> settingFiles,
   projectReport |-> [d \in {Dirname(settingFiles[k]) : k \in DOMAIN settingFiles} |-> projectReport],
   projects |-> [d \in {Dirname(settingFiles[k]) : k \in DOMAIN settingFiles} |-> projects],
   files |-> files]

ReportFiles(propertiesLines, tasksLines) ==
  MapSet(MapSet(EmptyMap, PropertiesFile, propertiesLines), TasksFile, tasksLines)

\* The workspaces getGradleReport is called in
GradleWorkspaces ==
  LET root == << <<"settings.gradle">> >>
      nested == << <<"settings.gradle">>, <<"sub", "/", "settings.gradle.kts">> >>
      files == ReportFiles(PropertiesLines, TasksLines)
  IN { Workspace(<<>>, Raised, Raised, EmptyMap),
       Workspace(root, Returned(ProjectReportLines), Returned(ProjectsLines), files),
       Workspace(nested, Returned(ProjectReportLines), Returned(ProjectsLines), files),
       Workspace(root, Raised, Returned(ProjectsLines), files),
       Workspace(root, Returned(ProjectReportLines), Raised, files),
       Workspace(root, Returned(ProjectReportLines), Returned(ProjectsLines), EmptyMap),
       Workspace(root, Returned(ProjectReportLines), Returned(ProjectsLines),
                 ReportFiles(NamelessPropertiesLines, TasksLines)),
       Workspace(root, Returned(CutOffReportLines), Returned(ProjectsLines), files),
       Workspace(root, Returned(ProjectReportLines), Returned(ProjectsLines),
                 ReportFiles(PropertiesLines, OpenEndedTasksLines)),
       Workspace(root, Returned(ProjectReportLines), Returned(OtherProjectsLines), files) }

\* What gradleCalls keeps of one call
GradleCall(op, o) ==
  [op |-> op, raised |-> o.raised, value |-> o.value, commands |-> o.commands]

\* One call getGradleReport() in the workspace `gradle`
GetGradleReport(gradle) ==
  /\ Len(gradleCalls) < MaxGradleCalls
  /\ \E o \in {getGradleReport(gradleReportCache, gradle, Len(gradleCalls) + 1)} :
       /\ gradleReportCache' = o.cache
       /\ gradleCalls' = Append(gradleCalls, GradleCall("getGradleReport", o))
  /\ UNCHANGED <<tsConfig, paths, typescriptResolutionCache, npmResolutionCache,
                 history, fsReads, twin, lookup, tree, migrations>>

\* One call invalidateGradleReportCache() (lines 27-29)
InvalidateGradleReportCache ==
  /\ Len(gradleCalls) < MaxGradleCalls
  /\ gradleReportCache' = NoReport
  /\ gradleCalls' = Append(gradleCalls,
                      GradleCall("invalidateGradleReportCache",
                                 [raised |-> FALSE, value |-> NoReport, commands |-> <<>>]))
  /\ UNCHANGED <<tsConfig, paths, typescriptResolutionCache, npmResolutionCache,
                 history, fsReads, twin, lookup, tree, migrations>>

\* The module freshly loaded, no locator in use
InitGradle ==
  /\ Construct(getRootTsConfig(FALSE))
  /\ NoTree

NextGradle ==
  \/ \E gradle \in GradleWorkspaces : GetGradleReport(gradle)
  \/ InvalidateGradleReportCache

SpecGradle == InitGradle /\ [][NextGradle]_vars


\* ------------------------------------------- the graph cache migration

\* tree.read(filePath, 'utf-8') of generators/tree: the content of the
\* file, null when the tree has no such file
treeRead(files, filePath) == IF filePath \in DOMAIN files THEN files[filePath] ELSE Null

\* tree.write(filePath, content) of generators/tree
treeWrite(files, filePath, content) == MapSet(files, filePath, content)

\* s.replace(pattern, replacement) for a pattern that is one token: the
\* first occurrence replaced, s itself when there is none
RECURSIVE StringReplace(_, _, _)
StringReplace(s, pattern, replacement) ==
  IF s = <<>> THEN <<>>
  ELSE IF Head(s) = pattern THEN replacement \o Tail(s)
  ELSE <<Head(s)>> \o StringReplace(Tail(s), pattern, replacement)

\* moveGraphCacheDirectory(tree) on the files `files`: the files it leaves
\* and the paths it wrote
moveGraphCacheDirectory(files) ==
  Let(treeRead(files, ".gitignore"), LAMBDA gitignore :
    IF ~Truthy(gitignore) THEN [files |-> files, writes |-> <<>>]
    ELSE IF Includes(gitignore, <<".nx/workspace-data">>) THEN [files |-> files, writes |-> <<>>]
    ELSE IF ~Includes(gitignore, <<".nx/cache">>) THEN [files |-> files, writes |-> <<>>]
    ELSE Let(StringReplace(gitignore, ".nx/cache", <<".nx/cache", "\n", ".nx/workspace-data">>),
             LAMBDA updatedGitignore :
               [files |-> treeWrite(files, ".gitignore", updatedGitignore),
                writes |-> <<".gitignore">>]))

\* The length of a .gitignore, in pieces of text
MaxGitignoreLen == 4

\* The number of runs of the migration
MaxMigrationRuns == 2

\* The pieces of text a .gitignore is made of: the two entries, the end of
\* a line, another entry, and text that continues an entry on its line
GitignoreText == {".nx/cache", ".nx/workspace-data", "\n", "node_modules", "/old"}

Gitignores == UNION { [1..n -> GitignoreText] : n \in 0..MaxGitignoreLen }

\* The trees given to the migration: an nx.json, and with or without a
\* .gitignore of any content
Trees ==
  LET others == MapSet(EmptyMap, "nx.json", <<"{}">>)
  IN {others} \cup { MapSet(others, ".gitignore", gitignore) : gitignore \in Gitignores }

\* A workspace about to be migrated, no locator or Gradle report in use
InitMigration ==
  /\ Construct(getRootTsConfig(FALSE))
  /\ tree \in Trees
  /\ migrations = <<>>

\* One run of the migration on the tree
MoveGraphCacheDirectory ==
  /\ Len(migrations) < MaxMigrationRuns
  /\ \E o \in {moveGraphCacheDirectory(tree)} :
       /\ tree' = o.files
       /\ migrations' = Append(migrations,
                          [before |-> tree, after |-> o.files, writes |-> o.writes])
  /\ UNCHANGED <<tsConfig, paths, typescriptResolutionCache, npmResolutionCache,
                 history, fsReads, twin, lookup, gradleReportCache, gradleCalls>>

NextMigration == MoveGraphCacheDirectory

SpecMigration == InitMigration /\ [][NextMigration]_vars


\* ------------------------------------------------------------ the claims

\* Every call is the last call of some reachable state, so a property of
\* one call is stated of the last call, and a property of two calls of the
\* last call and an earlier one.
Called == Len(history) > 0

LastCall == history[Len(history)]

SameArguments(g, h) ==
  /\ g.importExpr = h.importExpr
  /\ g.projectRoot = h.projectRoot
  /\ g.filePath = h.filePath

IsProjectName(v) == \E i \in 1..Len(nodes) : nodes[i].name = v

\* A path has an installed-dependency directory among its segments
HasNodeModulesSegment(p) ==
  p # Null /\ \E i \in 1..Len(Split(p)) : Split(p)[i] = <<"node_modules">>

\* C1: two consecutive calls with identical arguments return identical
\* results, and the second one calls no collaborator (descriptor locator,
\* descriptor read, language-aware resolver, runtime resolver).
C1_Idempotent ==
  Len(history) >= 2 =>
    LET g == history[Len(history) - 1]
        h == LastCall
    IN  SameArguments(g, h) =>
          /\ h.ret = g.ret
          /\ h.raised = g.raised
          /\ h.calls = <<>>

\* C2: a specifier no strategy resolves returns none on every call with the
\* same arguments, and of all those calls exactly one runs the fallback
\* chain (calls a collaborator).
C2_NoMatchCachedOnce ==
  Called /\ LastCall.by = "none" /\ ~LastCall.raised =>
    LET same == {i \in 1..Len(history) : SameArguments(history[i], LastCall)}
    IN  /\ \A i \in same : history[i].ret = Null /\ ~history[i].raised
        /\ Cardinality({i \in same : history[i].calls # <<>>}) = 1


\* The strategies in the order the specification gives them
StrategyOrder == <<"relative", "paths", "builtin", "external", "language", "runtime">>

StrategyRank(name) == CHOOSE i \in 1..Len(StrategyOrder) : StrategyOrder[i] = name

\* The project the alias table gives an import: that of the first candidate
\* of the alias used that lies in a project, Null when there is none
RECURSIVE FirstProjectOf(_, _, _, _)
FirstProjectOf(path, targets, importExpr, i) ==
  IF i > Len(targets) THEN Null
  ELSE Let(findProjectOfResolvedModule(PathCandidate(path, targets[i], importExpr)),
           LAMBDA project :
             IF Truthy(project) THEN project
             ELSE FirstProjectOf(path, targets, importExpr, i + 1))

AliasProject(importExpr) ==
  Let(findPaths(paths, importExpr), LAMBDA results :
    IF results = Null THEN Null
    ELSE FirstProjectOf(results[1], results[2], importExpr, 1))

\* C3: the strategies run in the order relative, paths, builtin, external,
\* language, runtime; the strategy that returns is the last one that ran;
\* an import that an alias maps into a project returns that project without
\* any collaborator being called, also when it names an installed package
\* ("dual"); an external match is returned without either fallback resolver
\* being called.
C3_StrategyOrder ==
  Called =>
    LET h == LastCall
    IN  /\ \A i, j \in 1..Len(h.trace) :
             i < j => StrategyRank(h.trace[i]) < StrategyRank(h.trace[j])
        /\ h.by # "none" => h.by = h.trace[Len(h.trace)]
        /\ ~isRelativePath(h.importExpr) /\ Truthy(AliasProject(h.importExpr)) =>
             /\ h.ret = AliasProject(h.importExpr)
             /\ h.by = "paths"
             /\ h.calls = <<>>
        /\ h.importExpr = <<"dual">> /\ paths # Null => h.ret = <<"lib">>
        /\ h.by = "external" =>
             \A k \in 1..Len(h.calls) :
               h.calls[k] \notin {"resolveModuleByImport", "require.resolve"}

\* C3's case: the import "dual", an alias of project lib and an installed
\* package, returned lib, and another call returned an external match.
C3_Witness ==
  /\ \E i \in 1..Len(history) :
       /\ history[i].importExpr = <<"dual">>
       /\ history[i].ret = <<"lib">>
       /\ history[i].by = "paths"
  /\ \E i \in 1..Len(history) :
       /\ history[i].by = "external"
       /\ history[i].ret = <<"npm:", "left-pad">>

\* C4: an import that matches a wildcard alias has the captured suffix
\* substituted at the wildcard of every target, wherever it sits: with
\* "@org/*" -> "libs/*/src/index", "@org/shared" goes through the candidate
\* "libs/shared/src/index" and returns the project rooted at libs/shared.
C4_WildcardExpansion ==
  Called /\ LastCall.importExpr = <<"@", "org", "/", "shared">> /\ paths # Null =>
    /\ LastCall.candidates = << <<"libs", "/", "shared", "/", "src", "/", "index">> >>
    /\ LastCall.ret = <<"shared">>

\* C5: a call whose resolved module has an installed-dependency directory
\* (node_modules) among its segments, at any position, never returns a
\* project.
C5_NoProjectInNodeModules ==
  Called /\ HasNodeModulesSegment(LastCall.resolved) => ~IsProjectName(LastCall.ret)


\* A platform builtin module name, bare or in its namespaced form
IsBuiltinName(s) ==
  \E m \in builtinModules : s = m \/ s = <<"node:">> \o m

\* C6 as stated: a call for a builtin module name, bare or namespaced,
\* returns none and calls neither the external-package collaborators nor a
\* fallback resolver.
C6_BuiltinShortCircuit ==
  Called /\ IsBuiltinName(LastCall.importExpr) =>
    /\ LastCall.ret = Null
    /\ ~LastCall.raised
    /\ LastCall.calls = <<>>

\* C6 as amended: a call for a builtin module name, bare or namespaced,
\* calls no collaborator and returns none by the builtin check, unless an
\* alias maps the name into a project, which is then returned.
C6_BuiltinUnlessAliased ==
  Called /\ IsBuiltinName(LastCall.importExpr) =>
    /\ ~LastCall.raised
    /\ LastCall.calls = <<>>
    /\ IF Truthy(AliasProject(LastCall.importExpr))
       THEN LastCall.ret = AliasProject(LastCall.importExpr) /\ LastCall.by = "paths"
       ELSE LastCall.ret = Null /\ LastCall.by = "builtin"

\* C6's case: "node:fs" and "fs" returned none by the builtin check.
C6_Witness ==
  /\ \E i \in 1..Len(history) :
       /\ history[i].importExpr = <<"node:", "fs">>
       /\ history[i].by = "builtin"
       /\ history[i].ret = Null
  /\ \E i \in 1..Len(history) :
       /\ history[i].importExpr = <<"fs">>
       /\ history[i].by = "builtin"
       /\ history[i].ret = Null

\* The package name of a specifier: the first two segments of a scoped
\* specifier, the first segment otherwise
PkgName(s) ==
  LET segs == Split(s)
  IN  IF s[1] = "@" /\ Len(segs) >= 2 THEN segs[1] \o <<"/">> \o segs[2] ELSE segs[1]

\* The external node the claim gives a package seen from a project root:
\* the first npm node with the name and the version of the nearest
\* descriptor; Null without a readable descriptor or a node matching both
ExpectedExternal(packageName, projectRoot) ==
  LET found == findExternalPackageJsonPath(packageName, Join(workspaceRoot, projectRoot))
  IN  IF found.raised \/ found.value = Null THEN Null
      ELSE LET json == readPackageJson(found.value)
           IN  IF json.raised THEN Null
               ELSE LET S == {i \in 1..Len(externalNodes) :
                                /\ externalNodes[i].name[1] = "npm:"
                                /\ externalNodes[i].packageName = json.value.name
                                /\ externalNodes[i].version = json.value.version}
                    IN  IF S = {} THEN Null ELSE externalNodes[First(S)].name

ReachedExternal(h) == \E k \in 1..Len(h.trace) : h.trace[k] = "external"

\* C7: a call that no earlier strategy settled returns the first external
\* node matching the nearest descriptor of the package on name and
\* version, and returns no external node when there is no descriptor or no
\* node matching on both.
C7_ExternalMatch ==
  Called /\ ReachedExternal(LastCall) =>
    LET h == LastCall
        e == ExpectedExternal(PkgName(h.importExpr), h.projectRoot)
    IN  IF e # Null
        THEN h.ret = e /\ h.by = "external"
        ELSE h.by # "external"

\* C8: no call ends by raising.
C8_NoExceptionEscapes ==
  Called => ~LastCall.raised


\* A path passes through an installed-dependency directory: a node_modules
\* segment with further segments after it
TraversesNodeModules(p) ==
  \E i \in 1..(Len(Split(p)) - 1) : Split(p)[i] = <<"node_modules">>

\* The segments of root are the first segments of p
Encloses(root, p) ==
  /\ Len(Split(root)) <= Len(Split(p))
  /\ SubSeq(Split(p), 1, Len(Split(root))) = Split(root)

\* The project whose root encloses a path, the innermost one; Null when no
\* root does
EnclosingProject(p) ==
  LET S == {i \in 1..Len(nodes) : Encloses(nodes[i].root, p)}
  IN  IF S = {} THEN Null
      ELSE nodes[CHOOSE i \in S :
                   \A j \in S : Len(nodes[j].root) <= Len(nodes[i].root)].name

\* What C9 says of every relative import but its example: only the relative
\* strategy runs and no collaborator is called; the joined path is the
\* specifier joined on the directory of the importing file; the call
\* returns none when that path passes through node_modules or lies in no
\* project, and the enclosing project when it has no node_modules segment.
RelativeRule(h) ==
  LET joined == Join(Dirname(h.filePath), h.importExpr)
  IN  /\ h.trace = <<"relative">>
      /\ h.calls = <<>>
      /\ h.candidates = <<>>
      /\ ~h.raised
      /\ h.resolved = joined
      /\ TraversesNodeModules(joined) => h.ret = Null
      /\ EnclosingProject(joined) = Null => h.ret = Null
      /\ ~HasNodeModulesSegment(joined) => h.ret = EnclosingProject(joined)

HasCall(h, name) == \E k \in 1..Len(h.calls) : h.calls[k] = name

\* C10: of two calls that reach the external strategy with the same package
\* name and the same project root, at most one looks the descriptor up and
\* both get the same external result; the first such call for a package
\* name and a root looks the descriptor up.
C10_CachedPerPackageAndRoot ==
  \A j \in 1..Len(history) :
    ReachedExternal(history[j]) =>
      LET h == history[j]
          earlier == {i \in 1..(j - 1) :
                        /\ ReachedExternal(history[i])
                        /\ PkgName(history[i].importExpr) = PkgName(h.importExpr)
                        /\ history[i].projectRoot = h.projectRoot}
      IN  /\ earlier = {} => HasCall(h, "findExternalPackageJsonPath")
          /\ \A i \in earlier :
               /\ ~HasCall(h, "findExternalPackageJsonPath")
               /\ (history[i].by = "external") = (h.by = "external")
               /\ h.by = "external" => h.ret = history[i].ret


\* What a locator of its own, freshly built, does on the calls of h from the
\* i-th on: its caches afterwards, and whether every call did what h
\* records of it (result, exception, strategies, collaborators called)
RECURSIVE Replay(_, _, _, _, _)
Replay(h, i, npmCache, tsCache, same) ==
  IF i > Len(h) THEN [npmCache |-> npmCache, tsCache |-> tsCache, same |-> same]
  ELSE Let(h[i], LAMBDA c :
       Let(findProjectWithImport(tsConfig, paths, npmCache, tsCache,
                                 c.importExpr, c.projectRoot, c.filePath), LAMBDA o :
       Let(o.npmCache, LAMBDA nc :
       Let(o.tsCache, LAMBDA tc :
       Let(same /\ CallRecord(c.importExpr, c.projectRoot, c.filePath, o) = c,
           LAMBDA ok :
         Replay(h, i + 1, nc, tc, ok))))))

AsIfAlone(h, npmCache, tsCache) ==
  Let(Replay(h, 1, EmptyMap, EmptyMap, TRUE), LAMBDA r :
    /\ r.same
    /\ r.npmCache = npmCache
    /\ r.tsCache = tsCache)

\* C11: of two locators built from the same inputs, each one's caches, and
\* the result and the collaborators called of each of its calls, are those
\* of a locator that made its calls alone, whatever calls the other one
\* made in between.
C11_InstanceIsolation ==
  /\ AsIfAlone(history, npmResolutionCache, typescriptResolutionCache)
  /\ AsIfAlone(twin.history, twin.npmResolutionCache, twin.typescriptResolutionCache)

\* C11's case: both locators resolved "lodash" from apps/app1, each looked
\* the descriptor up itself, and each has its own cache entry.
C11_Witness ==
  /\ Len(history) = 1
  /\ Len(twin.history) = 1
  /\ history[1].importExpr = <<"lodash">>
  /\ history[1].projectRoot = <<"apps", "/", "app1">>
  /\ twin.history[1] = history[1]
  /\ history[1].ret = <<"npm:", "lodash", "@", "3.0.0">>
  /\ \E k \in 1..Len(history[1].calls) :
       history[1].calls[k] = "findExternalPackageJsonPath"
  /\ DOMAIN npmResolutionCache # {}
  /\ twin.npmResolutionCache = npmResolutionCache


\* The keys under which a cache of specifiers can hold the outcome of a
\* call for specifier s and project root r: s itself, or s and r joined
SpecifierKeys(s, r) == { s, s \o <<"__">> \o r }

\* C12: once a call has returned, the locator's cache of specifiers holds
\* an entry for the call's specifier and project root whose value is the
\* value returned (the explicit no-match when none was returned),
\* whichever strategy returned.
C12_EveryOutcomeMemoized ==
  Called /\ ~LastCall.raised =>
    \E k \in DOMAIN npmResolutionCache :
      /\ k \in SpecifierKeys(LastCall.importExpr, LastCall.projectRoot)
      /\ npmResolutionCache[k] = LastCall.ret


\* A pattern P/* matches a specifier that is P or starts with P/
WildcardMatches(pattern, expr) ==
  /\ Len(pattern) >= 2
  /\ pattern[Len(pattern) - 1] = "/"
  /\ pattern[Len(pattern)] = "*"
  /\ LET P == SubSeq(pattern, 1, Len(pattern) - 2)
     IN  expr = P \/ (Len(expr) > Len(P) /\ SubSeq(expr, 1, Len(P) + 1) = P \o <<"/">>)

\* The aliases of the table, by position, that match a specifier
ExactAliases(expr) == {i \in 1..Len(paths) : paths[i].pattern = expr}

WildcardAliases(expr) == {i \in 1..Len(paths) : WildcardMatches(paths[i].pattern, expr)}

AliasAt(i) == <<paths[i].pattern, paths[i].targets>>

Looked == lookup # Null /\ paths # Null

\* C13 as stated: when patterns of the table match the specifier, findPaths
\* returns the first of them in declaration order, exact or wildcard; with
\* a matching wildcard declared before a matching exact pattern it returns
\* the wildcard's targets.
C13_FirstInDeclarationOrder ==
  Looked =>
    LET expr == lookup.normalizedImportExpr
        matching == ExactAliases(expr) \cup WildcardAliases(expr)
    IN  matching # {} => lookup.result = AliasAt(First(matching))

\* C13 as amended: when the table has a pattern equal to the specifier,
\* findPaths returns that pattern and its targets wherever it is declared,
\* also after a matching wildcard; otherwise, when the lookup of the
\* specifier in the table yields nothing, it returns the first wildcard
\* pattern in declaration order that matches.
C13_ExactThenFirstWildcard ==
  Looked =>
    LET expr == lookup.normalizedImportExpr
    IN  IF ExactAliases(expr) # {}
        THEN lookup.result = AliasAt(First(ExactAliases(expr)))
        ELSE expr \notin ObjectPrototypeMembers /\ WildcardAliases(expr) # {} =>
               lookup.result = AliasAt(First(WildcardAliases(expr)))

\* C13's case: "@org/a" looked up in a table that declares "@org/*" before
\* "@org/a" returned the targets of "@org/a".
C13_Witness ==
  /\ Looked
  /\ lookup.normalizedImportExpr = <<"@", "org", "/", "a">>
  /\ ExactAliases(lookup.normalizedImportExpr) # {}
  /\ WildcardAliases(lookup.normalizedImportExpr) # {}
  /\ First(WildcardAliases(lookup.normalizedImportExpr))
       < First(ExactAliases(lookup.normalizedImportExpr))
  /\ lookup.result[2] = TargetsOf(<<"@", "org", "/", "a">>)


\* C14: findPaths returns nothing without an alias table or when no
\* pattern matches; a pattern equal to the specifier is returned with its
\* targets unmodified; and a pattern it returns is equal to the specifier
\* or is a wildcard P/* with the specifier equal to P or starting with P/
\* ("@orgx/a" does not match "@org/*").
C14_WildcardMatchCondition ==
  lookup # Null =>
    LET expr == lookup.normalizedImportExpr
    IN  IF paths = Null THEN lookup.result = Null
        ELSE /\ (lookup.result # Null) =
                  (ExactAliases(expr) # {} \/ WildcardAliases(expr) # {})
             /\ ExactAliases(expr) # {} =>
                  lookup.result = <<expr, TargetsOf(expr)>>
             /\ lookup.result # Null =>
                  \E i \in ExactAliases(expr) \cup WildcardAliases(expr) :
                    lookup.result = AliasAt(i)


\* The candidates of alias i for a specifier, in target-list order, as the
\* locator expands them
ExpandedCandidates(i, expr) ==
  [k \in 1..Len(paths[i].targets) |->
     PathCandidate(paths[i].pattern, paths[i].targets[k], expr)]

LiesInProject(p) == EnclosingProject(p) # Null /\ ~TraversesNodeModules(p)

\* C15: the candidates of the matched alias are tried in target-list
\* order and the first one that lies in a project gives the result; when
\* none of them lies in a project (or they pass through node_modules), all
\* of them were tried and the call went on to the builtin check and, for a
\* specifier that is no builtin, to the external package, instead of
\* returning none from the aliases.
C15_PathMappingFallThrough ==
  (/\ Called
   /\ paths # Null
   /\ ~isRelativePath(LastCall.importExpr)
   /\ ExactAliases(LastCall.importExpr) \cup WildcardAliases(LastCall.importExpr) # {})
  =>
    LET h == LastCall
        i == IF ExactAliases(h.importExpr) # {}
             THEN First(ExactAliases(h.importExpr))
             ELSE First(WildcardAliases(h.importExpr))
        cands == ExpandedCandidates(i, h.importExpr)
        inProject == {k \in 1..Len(cands) : LiesInProject(cands[k])}
    IN  IF inProject # {}
        THEN /\ h.candidates = SubSeq(cands, 1, First(inProject))
             /\ h.by = "paths"
             /\ h.ret = EnclosingProject(cands[First(inProject)])
        ELSE /\ h.candidates = cands
             /\ h.by # "paths"
             /\ Len(h.trace) >= 2
             /\ h.trace[1] = "paths"
             /\ h.trace[2] = "builtin"
             /\ ~IsBuiltinName(h.importExpr) =>
                  Len(h.trace) >= 3 /\ h.trace[3] = "external"


\* C15's case: "@lib/shared" returned project shared from the second
\* candidate of its alias after the first one lay in no project, and
\* "poly", whose only candidate passes through node_modules, went on to the
\* builtin check and the external package.
C15_Witness ==
  /\ \E i \in 1..Len(history) :
       /\ history[i].importExpr = <<"@", "lib", "/", "shared">>
       /\ Len(history[i].candidates) = 2
       /\ history[i].by = "paths"
       /\ history[i].ret = <<"shared">>
  /\ \E i \in 1..Len(history) :
       /\ history[i].importExpr = <<"poly">>
       /\ Len(history[i].candidates) = 1
       /\ Len(history[i].trace) >= 3
       /\ history[i].trace[2] = "builtin"
       /\ history[i].trace[3] = "external"


\* C16: over the calls of one locator, no file is read twice: each package
\* descriptor is read at most once, and so is the root tsconfig.
C16_ReadAtMostOnce ==
  \A i, j \in 1..Len(fsReads) : i # j => fsReads[i] # fsReads[j]


\* Every key of a cache stays in it with its value
KeepsEntries(cache, cacheAfter) ==
  \A k \in DOMAIN cache : k \in DOMAIN cacheAfter /\ cacheAfter[k] = cache[k]

\* C17: a key of either cache that holds a value (a name or the explicit
\* no-match) keeps that value in every later state.
C17_WriteOnce ==
  [][/\ KeepsEntries(npmResolutionCache, npmResolutionCache')
     /\ KeepsEntries(typescriptResolutionCache, typescriptResolutionCache')]_vars


\* C18: the external package of a call is the one a locator with empty
\* caches finds for the same specifier and project root: no entry that
\* another specifier or another pair left in the cache stands in for it.
C18_CacheKeySeparation ==
  Called /\ ReachedExternal(LastCall) =>
    LET fresh == findNpmPackage(EmptyMap, LastCall.importExpr, LastCall.projectRoot)
    IN  IF Truthy(fresh.ret)
        THEN LastCall.by = "external" /\ LastCall.ret = fresh.ret
        ELSE LastCall.by # "external"


\* C19: a call returns what the same call returns when nothing has been
\* memoized for the language resolver yet (the other cache being as the
\* earlier calls left it), in particular after a call that resolved the
\* same specifier from another importing file.
C19_LanguageCacheTransparent ==
  Called =>
    LET before == Replay(SubSeq(history, 1, Len(history) - 1), 1, EmptyMap, EmptyMap, TRUE)
        cold == findProjectWithImport(tsConfig, paths, before.npmCache, EmptyMap,
                                      LastCall.importExpr, LastCall.projectRoot,
                                      LastCall.filePath)
    IN  /\ LastCall.ret = cold.ret
        /\ LastCall.raised = cold.raised


\* The name of an external node supplied to the constructor under a key
\* that starts with "npm:"
IsNpmNodeName(v) ==
  \E i \in 1..Len(externalNodes) :
    externalNodes[i].name = v /\ externalNodes[i].name[1] = "npm:"

\* C20: every value a call returns, computed or served from a cache, is
\* none, the name of a project node or the name of an "npm:" external node
\* given to the constructor; and the alias table and the tsconfig are those
\* the constructor read.
C20_ResultRange ==
  /\ \A i \in 1..Len(history) :
       ~history[i].raised =>
         \/ history[i].ret = Null
         \/ IsProjectName(history[i].ret)
         \/ IsNpmNodeName(history[i].ret)
  /\ \A key \in DOMAIN npmResolutionCache :
       npmResolutionCache[key] = Null \/ IsNpmNodeName(npmResolutionCache[key])
  /\ tsConfig \in {getRootTsConfig(TRUE), getRootTsConfig(FALSE)}
  /\ paths = tsConfig.config.paths

\* C20's case: a call was served an external node from the cache, and a
\* call returned a project.
C20_Witness ==
  /\ \E i \in 1..Len(history) :
       /\ history[i].by = "external"
       /\ history[i].calls = <<>>
       /\ IsNpmNodeName(history[i].ret)
  /\ \E i \in 1..Len(history) :
       /\ history[i].by = "external"
       /\ history[i].calls # <<>>
       /\ history[i].ret = <<"npm:", "left-pad">>

\* --- C21

\* Call i on the Gradle report is a getGradleReport call
IsGetGradleReport(i) == gradleCalls[i].op = "getGradleReport"

\* Call i is the first getGradleReport call of all, or the first after an
\* invalidateGradleReportCache call
FirstSinceInvalidation(i) ==
  /\ IsGetGradleReport(i)
  /\ \/ \A j \in 1..(i - 1) : ~IsGetGradleReport(j)
     \/ \E j \in 1..(i - 1) :
          /\ gradleCalls[j].op = "invalidateGradleReportCache"
          /\ \A k \in (j + 1)..(i - 1) : ~IsGetGradleReport(k)

\* C21: in any sequence of getGradleReport and invalidateGradleReportCache
\* calls, every getGradleReport call that is neither the first one nor the
\* first one after an invalidateGradleReportCache runs no Gradle command and
\* returns the very same report object as the call before it.
C21_GradleReportMemoized ==
  \A i \in DOMAIN gradleCalls :
    (IsGetGradleReport(i) /\ ~FirstSinceInvalidation(i)) =>
      /\ gradleCalls[i].commands = <<>>
      /\ ~gradleCalls[i].raised
      /\ ~gradleCalls[i - 1].raised
      /\ gradleCalls[i].value = gradleCalls[i - 1].value

\* --- C22

\* The lines of a .gitignore
GitignoreLines(gitignore) == SplitOn(gitignore, "\n")

\* The first line with an occurrence of `.nx/cache`
FirstCacheLine(lines) ==
  CHOOSE k \in DOMAIN lines :
    /\ Includes(lines[k], <<".nx/cache">>)
    /\ \A j \in 1..(k - 1) : ~Includes(lines[j], <<".nx/cache">>)

\* `lines` with `line` inserted after line k
InsertLineAfter(lines, k, line) ==
  SubSeq(lines, 1, k) \o <<line>> \o SubSeq(lines, k + 1, Len(lines))

\* The tree has a non-empty .gitignore that contains `.nx/cache` and does
\* not contain `.nx/workspace-data`
ToBeMigrated(files) ==
  /\ ".gitignore" \in DOMAIN files
  /\ files[".gitignore"] # <<>>
  /\ Includes(files[".gitignore"], <<".nx/cache">>)
  /\ ~Includes(files[".gitignore"], <<".nx/workspace-data">>)

\* The files other than .gitignore are the same in both trees
SameOtherFiles(before, after) ==
  /\ DOMAIN after \ {".gitignore"} = DOMAIN before \ {".gitignore"}
  /\ \A f \in DOMAIN before \ {".gitignore"} : after[f] = before[f]

\* C22: the migration writes .gitignore, and nothing else, only when the
\* file exists, is non-empty, contains `.nx/cache` and does not contain
\* `.nx/workspace-data`; in that case the .gitignore it leaves is the one
\* it found with a line `.nx/workspace-data` inserted after the line of the
\* first `.nx/cache` occurrence, every other line and every other file
\* unchanged; otherwise it leaves the tree as it found it; and a second run
\* never changes the tree.
C22_IdempotentAndConservative ==
  \A i \in DOMAIN migrations :
    LET run == migrations[i] IN
      /\ run.writes # <<>> => (ToBeMigrated(run.before) /\ run.writes = <<".gitignore">>)
      /\ ToBeMigrated(run.before) =>
           /\ LET lines == GitignoreLines(run.before[".gitignore"])
              IN GitignoreLines(run.after[".gitignore"])
                   = InsertLineAfter(lines, FirstCacheLine(lines), <<".nx/workspace-data">>)
           /\ SameOtherFiles(run.before, run.after)
      /\ ~ToBeMigrated(run.before) => run.after = run.before
      /\ i > 1 => (run.after = run.before /\ run.writes = <<>>)

=============================================================================
